---- MODULE Spec2Model ----
(***************************************************************************)
(* Displacement Volume Analyzer (streamlit_app.py): the sample store kept  *)
(* in st.session_state.samples and in the JSON file DATA_FILE, and the     *)
(* volume conversion calculate_volume.                                     *)
(*                                                                         *)
(* A Python str that the code inspects character by character (a sample    *)
(* id, because of new_id.strip()) is a sequence of one-character strings.  *)
(* A Python number is a decimal [m |-> mantissa, e |-> exponent] standing  *)
(* for m / 10^e; products are exact (binary rounding of floats is not      *)
(* modelled).  A Python dict is a function from its keys; a Python list is *)
(* a sequence, indexed from 0 in the code and from 1 here.                 *)
(***************************************************************************)
EXTENDS Integers, Sequences, FiniteSets, TLC

VARIABLES
    data_file,      \* the content of DATA_FILE on disk
    session_state,  \* st.session_state: a dict, with key "samples" once initialised
    last,           \* the last script run: the widget that fired, its inputs, what it showed
    results,        \* Tab 1: the widget values given to calculate_volume and its result
    faults          \* file writes failed by the environment so far

vars == <<data_file, session_state, last, results, faults>>

\* ------------------------------------------------------------------ bounds
\* Longest sample list the Add form is exercised on.
MaxSamples == 6
\* Number of file writes the environment may fail in one behaviour.
MaxFailures == 1
\* Largest weight mantissa given to calculate_volume, and the number of
\* negative mantissas below zero.
MaxWeight == 5
NegWeights == 2
\* Largest decimal exponent of a weight given to calculate_volume.
MaxExp == 1
\* Longest JSON array found in a file that this program did not write.
MaxForeign == 2

\* ------------------------------------------------------------- data values
Dec(m, e) == [m |-> m, e |-> e]

Units == {"grams", "ounces", "pounds", "kilograms"}

Sample001 == <<"S", "a", "m", "p", "l", "e", "-", "0", "0", "1">>
Sample002 == <<"S", "a", "m", "p", "l", "e", "-", "0", "0", "2">>
Sample003 == <<"S", "a", "m", "p", "l", "e", "-", "0", "0", "3">>
Sample004 == <<"S", "a", "m", "p", "l", "e", "-", "0", "0", "4">>
Sample005 == <<"S", "a", "m", "p", "l", "e", "-", "0", "0", "5">>

sample_data ==
    << [id |-> Sample001, weight |-> Dec(150, 0), unit |-> "grams"],
       [id |-> Sample002, weight |-> Dec(55, 1),  unit |-> "ounces"],
       [id |-> Sample003, weight |-> Dec(23, 1),  unit |-> "pounds"],
       [id |-> Sample004, weight |-> Dec(75, 2),  unit |-> "kilograms"],
       [id |-> Sample005, weight |-> Dec(250, 0), unit |-> "grams"] >>

\* ---------------------------------------------------------------- str.strip
Whitespace == {" ", "\t", "\n"}

RECURSIVE lstrip(_)
lstrip(s) ==
    IF s = <<>> THEN <<>>
    ELSE IF Head(s) \in Whitespace THEN lstrip(Tail(s)) ELSE s

RECURSIVE rstrip(_)
rstrip(s) ==
    IF s = <<>> THEN <<>>
    ELSE IF s[Len(s)] \in Whitespace THEN rstrip(SubSeq(s, 1, Len(s) - 1)) ELSE s

strip(s) == rstrip(lstrip(s))

\* ------------------------------------------------------------ json.dump/load
\* The keys of a dict in the order the program inserts (and so dumps) them.
KeyOrder == <<"id", "weight", "unit", "note">>

\* One dict as a JSON object: its key/value pairs in order.
dump_object(d) ==
    LET keys == SelectSeq(KeyOrder, LAMBDA k : k \in DOMAIN d)
    IN  [j \in 1..Len(keys) |-> <<keys[j], d[keys[j]]>>]

\* A list of dicts as a JSON array of objects.
json_dump(samples) == [i \in 1..Len(samples) |-> dump_object(samples[i])]

\* One JSON object as a dict: the last pair of a key gives its value.
load_object(pairs) ==
    [k \in {pairs[j][1] : j \in 1..Len(pairs)} |->
        LET j == CHOOSE j \in 1..Len(pairs) :
                    /\ pairs[j][1] = k
                    /\ \A h \in (j + 1)..Len(pairs) : pairs[h][1] # k
        IN  pairs[j][2]]

json_load(text) == [i \in 1..Len(text) |-> load_object(text[i])]

\* ----------------------------------------------------------------- the file
\* DATA_FILE is absent, or holds a complete JSON array, or holds the first
\* objects of one (an interrupted write: the array is never closed).
NoFile == [exists |-> FALSE, complete |-> FALSE, text |-> <<>>]

WholeFile(text) == [exists |-> TRUE, complete |-> TRUE, text |-> text]

PartFile(text) == [exists |-> TRUE, complete |-> FALSE, text |-> text]

\* What the environment does to one write of the file: it succeeds, open()
\* fails (nothing touched), or the write fails after open(..., 'w') truncated
\* the file and k objects reached the disk.
NoFault == [fail |-> "none", k |-> 0]

Faults(n) ==
    {NoFault, [fail |-> "open", k |-> 0]} \cup {[fail |-> "write", k |-> k] : k \in 0..n}

load_data(f) ==
    IF f.exists
    THEN IF f.complete
         THEN [raised |-> FALSE, value |-> json_load(f.text)]
         ELSE [raised |-> TRUE, value |-> <<>>]
    ELSE [raised |-> FALSE, value |-> <<>>]

save_data(f, samples, out) ==
    CASE out.fail = "none" ->
            [raised |-> FALSE, file |-> WholeFile(json_dump(samples))]
      [] out.fail = "open" ->
            [raised |-> TRUE, file |-> f]
      [] out.fail = "write" ->
            [raised |-> TRUE, file |-> PartFile(SubSeq(json_dump(samples), 1, out.k))]

initialize_data(f, out) ==
    IF ~f.exists THEN save_data(f, sample_data, out)
    ELSE [raised |-> FALSE, file |-> f]

\* ------------------------------------------------------------ the script run
NoSession == [k \in {} |-> <<>>]

HasSamples == "samples" \in DOMAIN session_state

Ran(op, id, weight, unit, idx, result) ==
    [op |-> op, id |-> id, weight |-> weight, unit |-> unit, idx |-> idx,
     result |-> result]

NoInput == Dec(0, 0)

NotRun == Ran("none", <<>>, NoInput, "", 0, "none")

\* What the environment may do to a write of at most n objects.
Allowed(n) == IF faults < MaxFailures THEN Faults(n) ELSE {NoFault}

Count(out) == IF out.fail = "none" THEN faults ELSE faults + 1

\* Lines 124-126: 'samples' not in st.session_state.
session_init(f, out) ==
    LET init == initialize_data(f, out)
        ld   == load_data(init.file)
    IN  IF init.raised
        THEN [file |-> init.file, state |-> NoSession, result |-> "exception"]
        ELSE IF ld.raised
             THEN [file |-> init.file, state |-> NoSession, result |-> "exception"]
             ELSE [file |-> init.file, state |-> [samples |-> ld.value],
                   result |-> "loaded"]

StartSession(out) ==
    /\ ~HasSamples
    /\ data_file.exists => out = NoFault
    /\ LET r == session_init(data_file, out)
       IN  /\ data_file' = r.file
           /\ session_state' = r.state
           /\ last' = Ran("start", <<>>, NoInput, "", 0, r.result)
    /\ faults' = Count(out)
    /\ UNCHANGED results

\* A duplicate check that looks at the newest sample only.
is_duplicate_newest_only(samples, new_id) ==
    Len(samples) > 0 /\ samples[Len(samples)].id = new_id

\* Line 276: any(s['id'] == new_id for s in st.session_state.samples).
is_duplicate(samples, new_id) == \E i \in 1..Len(samples) : samples[i].id = new_id

\* An Add form that overwrites the sample of a duplicate id and saves.
add_sample_form_upsert(samples, f, new_id, new_weight, new_unit, out) ==
    IF strip(new_id) # <<>>
    THEN LET new == [id |-> new_id, weight |-> new_weight, unit |-> new_unit]
             merged == IF is_duplicate(samples, new_id)
                       THEN [i \in 1..Len(samples) |->
                                IF samples[i].id = new_id THEN new ELSE samples[i]]
                       ELSE Append(samples, new)
             sv == save_data(f, merged, out)
         IN  [samples |-> merged, file |-> sv.file,
              result |-> IF sv.raised THEN "exception" ELSE "success"]
    ELSE [samples |-> samples, file |-> f, result |-> "blank"]

\* An Add form that puts the new sample first.
add_sample_form_front(samples, f, new_id, new_weight, new_unit, out) ==
    IF strip(new_id) # <<>>
    THEN IF is_duplicate(samples, new_id)
         THEN [samples |-> samples, file |-> f, result |-> "duplicate"]
         ELSE LET inserted ==
                      <<[id |-> new_id, weight |-> new_weight, unit |-> new_unit]>>
                          \o samples
                  sv == save_data(f, inserted, out)
              IN  [samples |-> inserted, file |-> sv.file,
                   result |-> IF sv.raised THEN "exception" ELSE "success"]
    ELSE [samples |-> samples, file |-> f, result |-> "blank"]

\* Lines 273-289: the Add form, submitted.
add_sample_form(samples, f, new_id, new_weight, new_unit, out) ==
    IF strip(new_id) # <<>>
    THEN IF is_duplicate(samples, new_id)
         THEN [samples |-> samples, file |-> f, result |-> "duplicate"]
         ELSE LET appended == Append(samples,
                                [id |-> new_id, weight |-> new_weight, unit |-> new_unit])
                  sv == save_data(f, appended, out)
              IN  [samples |-> appended, file |-> sv.file,
                   result |-> IF sv.raised THEN "exception" ELSE "success"]
    ELSE [samples |-> samples, file |-> f, result |-> "blank"]

AddSample(new_id, new_weight, new_unit, out) ==
    /\ HasSamples
    /\ out.k <= Len(session_state.samples) + 1
    /\ LET samples == session_state.samples
           r == add_sample_form(samples, data_file, new_id, new_weight, new_unit, out)
           wrote == r.result \in {"success", "exception"}
       IN  /\ wrote => Len(samples) < MaxSamples
           /\ ~wrote => out = NoFault
           /\ session_state' = [samples |-> r.samples]
           /\ data_file' = r.file
           /\ last' = Ran("add", new_id, new_weight, new_unit, 0, r.result)
    /\ faults' = Count(out)
    /\ UNCHANGED results

\* A pop that takes idx for a position counted from 1.
pop_one_based(samples, idx) ==
    SubSeq(samples, 1, idx - 1) \o SubSeq(samples, idx + 1, Len(samples))

\* Line 306: list.pop(idx), idx counted from 0.
pop(samples, idx) ==
    SubSeq(samples, 1, idx) \o SubSeq(samples, idx + 2, Len(samples))

\* A delete button that puts the sample back when the save raises.
delete_button_rollback(samples, f, idx, out) ==
    LET popped == pop(samples, idx)
        sv == save_data(f, popped, out)
    IN  IF sv.raised
        THEN [samples |-> samples, file |-> sv.file, result |-> "exception"]
        ELSE [samples |-> popped, file |-> sv.file, result |-> "success"]

\* Lines 305-310: the delete button of row idx, clicked.
delete_button(samples, f, idx, out) ==
    LET popped == pop(samples, idx)
        sv == save_data(f, popped, out)
    IN  [samples |-> popped, file |-> sv.file,
         result |-> IF sv.raised THEN "exception" ELSE "success"]

DeleteSample(idx, out) ==
    /\ HasSamples
    /\ idx \in 0..(Len(session_state.samples) - 1)
    /\ out.k < Len(session_state.samples)
    /\ LET r == delete_button(session_state.samples, data_file, idx, out)
       IN  /\ session_state' = [samples |-> r.samples]
           /\ data_file' = r.file
           /\ last' = Ran("delete", session_state.samples[idx + 1].id, NoInput, "", idx,
                          r.result)
    /\ faults' = Count(out)
    /\ UNCHANGED results

\* Lines 226-228: Refresh Results, clicked.
refresh_button(samples, f) ==
    LET ld == load_data(f)
    IN  IF ld.raised THEN [samples |-> samples, result |-> "exception"]
        ELSE [samples |-> ld.value, result |-> "loaded"]

Refresh ==
    /\ HasSamples
    /\ LET r == refresh_button(session_state.samples, data_file)
       IN  /\ session_state' = [samples |-> r.samples]
           /\ last' = Ran("refresh", <<>>, NoInput, "", 0, r.result)
    /\ UNCHANGED <<data_file, results, faults>>

\* A new browser session: st.session_state starts without 'samples' (line 124).
NewSession ==
    /\ HasSamples
    /\ session_state' = NoSession
    /\ last' = NotRun
    /\ UNCHANGED <<data_file, results, faults>>

\* ------------------------------------------------------------ calculate_volume
Mul(a, b) == Dec(a.m * b.m, a.e + b.e)

\* The table with the pounds-to-cubic-inches digits transposed.
conversions_typo ==
    [grams     |-> [mm3 |-> Dec(1000, 0),      cm3 |-> Dec(1, 0),
                    in3 |-> Dec(61023744, 9)],
     ounces    |-> [mm3 |-> Dec(283168466, 4), cm3 |-> Dec(283168466, 7),
                    in3 |-> Dec(17295904, 7)],
     pounds    |-> [mm3 |-> Dec(45359237, 2),  cm3 |-> Dec(45359237, 5),
                    in3 |-> Dec(276806724, 7)],
     kilograms |-> [mm3 |-> Dec(1000000, 0),   cm3 |-> Dec(1000, 0),
                    in3 |-> Dec(61023744, 6)]]

\* Lines 109-114: the multipliers, as decimals.
conversions ==
    [grams     |-> [mm3 |-> Dec(1000, 0),      cm3 |-> Dec(1, 0),
                    in3 |-> Dec(61023744, 9)],
     ounces    |-> [mm3 |-> Dec(283168466, 4), cm3 |-> Dec(283168466, 7),
                    in3 |-> Dec(17295904, 7)],
     pounds    |-> [mm3 |-> Dec(45359237, 2),  cm3 |-> Dec(45359237, 5),
                    in3 |-> Dec(276806742, 7)],
     kilograms |-> [mm3 |-> Dec(1000000, 0),   cm3 |-> Dec(1000, 0),
                    in3 |-> Dec(61023744, 6)]]

\* Lines 107-121.  conversions[unit] raises KeyError for an unknown unit; no
\* other input is refused.
calculate_volume(weight, unit) ==
    IF unit \in DOMAIN conversions
    THEN [raised |-> "none",
          mm3 |-> Mul(weight, conversions[unit].mm3),
          cm3 |-> Mul(weight, conversions[unit].cm3),
          in3 |-> Mul(weight, conversions[unit].in3)]
    ELSE [raised |-> "KeyError",
          mm3 |-> NoInput, cm3 |-> NoInput, in3 |-> NoInput]

Pending == [raised |-> "pending", mm3 |-> NoInput, cm3 |-> NoInput, in3 |-> NoInput]

NoResults == [weight |-> NoInput, unit |-> "grams", out |-> Pending]

\* Line 180 (and line 235): the script calls calculate_volume on its inputs.
Calculate ==
    /\ HasSamples
    /\ results.out = Pending
    /\ results' = [results EXCEPT !.out = calculate_volume(results.weight, results.unit)]
    /\ UNCHANGED <<data_file, session_state, last, faults>>

\* --------------------------------------------------- the session and its file
Lower001 == <<"s", "a", "m", "p", "l", "e", "-", "0", "0", "1">>

AddIds == {<<>>, <<" ">>, Sample001, Lower001}

AddWeights == {Dec(100, 0)}

AddUnits == {"grams", "kilograms"}

Init ==
    /\ data_file = NoFile
    /\ session_state = NoSession
    /\ last = NotRun
    /\ results = NoResults
    /\ faults = 0

Next ==
    \/ \E out \in Allowed(Len(sample_data)) : StartSession(out)
    \/ \E new_id \in AddIds, new_weight \in AddWeights, new_unit \in AddUnits,
          out \in Allowed(MaxSamples) :
            AddSample(new_id, new_weight, new_unit, out)
    \/ \E idx \in 0..(MaxSamples - 1), out \in Allowed(MaxSamples) : DeleteSample(idx, out)
    \/ Refresh
    \/ NewSession

Spec == Init /\ [][Next]_vars

\* ------------------------------------------- load_data on a file found on disk
S6 == <<"S", "6">>

\* JSON objects a file may hold: one of the schema, then one with a unit outside
\* the four, one with a negative weight, one without "unit", one with a fourth key.
ForeignObjects ==
    { << <<"id", S6>>, <<"weight", Dec(100, 0)>>, <<"unit", "grams">> >>,
      << <<"id", S6>>, <<"weight", Dec(100, 0)>>, <<"unit", "stone">> >>,
      << <<"id", S6>>, <<"weight", Dec(-5, 0)>>,  <<"unit", "grams">> >>,
      << <<"id", S6>>, <<"weight", Dec(100, 0)>> >>,
      << <<"id", S6>>, <<"weight", Dec(100, 0)>>, <<"unit", "grams">>,
         <<"note", "x">> >> }

ForeignTexts == UNION {[1..n -> ForeignObjects] : n \in 0..MaxForeign}

ForeignFiles ==
    {NoFile} \cup {WholeFile(t) : t \in ForeignTexts} \cup {PartFile(t) : t \in ForeignTexts}

InitLoad ==
    /\ data_file \in ForeignFiles
    /\ session_state \in {NoSession, [samples |-> <<>>]}
    /\ last = NotRun
    /\ results = NoResults
    /\ faults = 0

NextLoad ==
    \/ StartSession(NoFault)
    \/ Refresh

SpecLoad == InitLoad /\ [][NextLoad]_vars

\* ------------------------------------------------ calculate_volume on any input
WeightInputs == {Dec(m, e) : m \in (0 - NegWeights)..MaxWeight, e \in 0..MaxExp}

UnitInputs == Units \cup {"stone", ""}

InitConvert ==
    /\ data_file = WholeFile(json_dump(sample_data))
    /\ session_state = [samples |-> sample_data]
    /\ last = NotRun
    /\ results \in {[weight |-> w, unit |-> u, out |-> Pending] :
                        w \in WeightInputs, u \in UnitInputs}
    /\ faults = 0

NextConvert == Calculate

SpecConvert == InitConvert /\ [][NextConvert]_vars

\* ------------------------------------------------------------------ properties
UniqueIds(list) ==
    \A i, j \in 1..Len(list) : i # j => list[i].id # list[j].id

\* The file is a complete array that reads back as the session's list.
Agree(f, state) ==
    /\ "samples" \in DOMAIN state
    /\ f.exists
    /\ f.complete
    /\ json_load(f.text) = state.samples

\* The sample the Add form of the step was given.
Submitted == [id |-> last'.id, weight |-> last'.weight, unit |-> last'.unit]

IdTaken == \E i \in 1..Len(session_state.samples) : session_state.samples[i].id = last'.id

NonBlank(id) == \E i \in 1..Len(id) : id[i] \notin {" ", "\t", "\n"}

\* The list without its element at 0-based position idx.
Without(list, idx) ==
    [j \in 1..(Len(list) - 1) |-> IF j <= idx THEN list[j] ELSE list[j + 1]]

\* C1: no two samples of st.session_state.samples share an id, and no two
\* objects of DATA_FILE share an id, in every state reached by starting
\* sessions, adding, deleting and refreshing.
C1_UniqueIds ==
    /\ HasSamples => UniqueIds(session_state.samples)
    /\ data_file.exists => UniqueIds(json_load(data_file.text))

\* A duplicate was just refused while two ids that differ only in case are stored.
C1_Witness ==
    /\ HasSamples
    /\ last.op = "add" /\ last.result = "duplicate"
    /\ \E i, j \in 1..Len(session_state.samples) :
          session_state.samples[i].id = Sample001 /\ session_state.samples[j].id = Lower001

\* C2: an add whose id equals the id of a stored sample shows the duplicate
\* error, leaves st.session_state.samples as it was and does not touch
\* DATA_FILE, whatever weight and unit came with it.
C2_DuplicateRejected ==
    [][(last'.op = "add" /\ HasSamples /\ IdTaken)
         => /\ last'.result = "duplicate"
            /\ session_state' = session_state
            /\ data_file' = data_file]_vars

\* A duplicate was refused while the file and the list differ.
C2_Witness ==
    /\ HasSamples
    /\ last.op = "add" /\ last.result = "duplicate" /\ last.unit = "kilograms"
    /\ ~Agree(data_file, session_state)

\* What C3 promises of an add step: the list is the old list with the new
\* sample at its end, the file is written, and reading it returns that list,
\* the new sample in it once.
AppendedAndPersisted ==
    LET new == session_state.samples \o <<Submitted>>
        ld  == load_data(data_file')
    IN  /\ last'.result = "success"
        /\ session_state'.samples = new
        /\ data_file'.exists
        /\ ~ld.raised
        /\ ld.value = new
        /\ Cardinality({i \in 1..Len(ld.value) : ld.value[i].id = last'.id}) = 1

\* C3 as stated: every add with a non-empty id that matches no stored sample,
\* and whose file write does not fail, appends and persists.
C3_NonEmptyIdAppends ==
    [][(last'.op = "add" /\ HasSamples /\ last'.id # <<>> /\ ~IdTaken
            /\ last'.result # "exception")
         => AppendedAndPersisted]_vars

\* C3 amended: every add with an id that holds a character other than
\* whitespace and matches no stored sample, and whose file write does not
\* fail, appends and persists.
C3_NonBlankIdAppends ==
    [][(last'.op = "add" /\ HasSamples /\ NonBlank(last'.id) /\ ~IdTaken
            /\ last'.result # "exception")
         => AppendedAndPersisted]_vars

\* A new id was appended as the sixth sample.
C3_Witness ==
    /\ HasSamples
    /\ last.op = "add" /\ last.result = "success" /\ last.id = Lower001
    /\ Len(session_state.samples) = 6
    /\ session_state.samples[6].id = Lower001
    /\ Agree(data_file, session_state)

\* C4: a delete at position idx whose file write does not fail leaves a file
\* that reads back as the old list without its element at idx: one entry
\* fewer, the others unaltered and in their order.
C4_RemoveAtPosition ==
    [][(last'.op = "delete" /\ last'.result # "exception")
         => LET old == session_state.samples
                ld  == load_data(data_file')
            IN  /\ ~ld.raised
                /\ Len(ld.value) = Len(old) - 1
                /\ ld.value = Without(old, last'.idx)
                /\ session_state'.samples = ld.value]_vars

\* The third of five samples was deleted.
C4_Witness ==
    /\ HasSamples
    /\ last.op = "delete" /\ last.result = "success" /\ last.idx = 2
    /\ Len(session_state.samples) = 4
    /\ session_state.samples[3].id = Sample004

\* C5: a write of the file is all or nothing: when it fails the file holds
\* what it held before, when it succeeds the file holds the whole list.
C5_AtomicPersist ==
    [][(last'.op \in {"add", "delete"} /\ last'.result \in {"success", "exception"})
         => IF faults' > faults
            THEN data_file' = data_file
            ELSE data_file' = WholeFile(json_dump(session_state'.samples))]_vars

\* C6: when the write that follows an add or a delete fails, no success is
\* shown, st.session_state.samples keeps the appended (or loses the deleted)
\* sample, and the file is not written again: it is left untouched or cut.
C6_FailureKeepsMutation ==
    [][(last'.op \in {"add", "delete"} /\ faults' > faults)
         => /\ last'.result = "exception"
            /\ session_state'.samples =
                  IF last'.op = "add"
                  THEN session_state.samples \o <<Submitted>>
                  ELSE Without(session_state.samples, last'.idx)
            /\ \/ data_file' = data_file
               \/ data_file'.exists /\ ~data_file'.complete]_vars

\* A delete whose write was cut short: the sample is gone from the list.
C6_Witness ==
    /\ HasSamples
    /\ last.op = "delete" /\ last.result = "exception"
    /\ data_file.exists /\ ~data_file.complete
    /\ \A i \in 1..Len(session_state.samples) : session_state.samples[i].id # last.id

\* The format of section 6: a complete array of objects with exactly the keys
\* id, weight and unit, the unit one of the four.
SchemaValid(f) ==
    /\ f.complete
    /\ \A i \in 1..Len(f.text) :
          /\ Len(f.text[i]) = 3
          /\ {f.text[i][j][1] : j \in 1..3} = {"id", "weight", "unit"}
          /\ load_object(f.text[i]).unit \in {"grams", "ounces", "pounds", "kilograms"}

\* C7: a load of a file that is present and not of the format fails and its
\* content never becomes the sample list; a load of an absent file gives the
\* empty list.
C7_LoadValidates ==
    /\ (last.op \in {"start", "refresh"} /\ data_file.exists /\ ~SchemaValid(data_file))
          => last.result = "exception"
    /\ (last.op = "refresh" /\ ~data_file.exists)
          => last.result = "loaded" /\ session_state.samples = <<>>

\* C8: calculate_volume returns no volumes for a unit outside the four, nor
\* for a negative weight.
C8_RejectsInvalid ==
    results.out.raised # "pending"
        => /\ results.unit \notin {"grams", "ounces", "pounds", "kilograms"}
                => results.out.raised # "none"
           /\ results.weight.m < 0 => results.out.raised # "none"

\* The multipliers of section 4.1, per unit: mm3, cm3, in3.
SpecTable ==
    [grams     |-> <<Dec(1000, 0), Dec(1, 0), Dec(61023744, 9)>>,
     ounces    |-> <<Dec(283168466, 4), Dec(283168466, 7), Dec(17295904, 7)>>,
     pounds    |-> <<Dec(45359237, 2), Dec(45359237, 5), Dec(276806742, 7)>>,
     kilograms |-> <<Dec(1000000, 0), Dec(1000, 0), Dec(61023744, 6)>>]

Product(w, t) == [m |-> w.m * t.m, e |-> w.e + t.e]

\* C9: for a unit of the four and a weight that is not negative
\* calculate_volume returns the three products of the weight with the unit's
\* multipliers, and the call changes neither the list nor the file.
C9_TableProducts ==
    [][(results'.out # results.out /\ results.weight.m >= 0
            /\ results.unit \in DOMAIN SpecTable)
         => /\ results'.out.raised = "none"
            /\ results'.out.mm3 = Product(results.weight, SpecTable[results.unit][1])
            /\ results'.out.cm3 = Product(results.weight, SpecTable[results.unit][2])
            /\ results'.out.in3 = Product(results.weight, SpecTable[results.unit][3])
            /\ results'.weight = results.weight /\ results'.unit = results.unit
            /\ session_state' = session_state
            /\ data_file' = data_file]_vars

\* Half a pound was converted.
C9_Witness ==
    /\ results.out.raised = "none"
    /\ results.unit = "pounds" /\ results.weight = Dec(5, 1)
    /\ results.out.in3 = Dec(1384033710, 8)

\* C10: after session initialisation, and after every add or delete whose
\* write succeeded and every refresh, the file reads back as
\* st.session_state.samples; a refused add keeps that agreement.
C10_MemoryFileAgree ==
    [][/\ (last'.op = "start" /\ "samples" \in DOMAIN session_state')
            => Agree(data_file', session_state')
       /\ (last'.op \in {"add", "delete"} /\ last'.result = "success")
            => Agree(data_file', session_state')
       /\ last'.op = "refresh" => Agree(data_file', session_state')
       /\ (last'.op = "add" /\ last'.result \in {"duplicate", "blank"}
              /\ Agree(data_file, session_state))
            => Agree(data_file', session_state')]_vars

====
